---- MODULE Spec2Model ----
(***************************************************************************)
(* A model of bmfont2c.py: the glyph rasterizer (Glyph.makeBitmapCode),    *)
(* the per-font table builders (makeBitmapsTable, makeWidthsTable,         *)
(* makeBitmapsOffsetTable, makeFontSource), the configuration loader       *)
(* (Config, loadStringsCharSet) and the orchestrator (processConfig).      *)
(*                                                                         *)
(* Three specifications share the module:                                  *)
(*   SpecRaster : makeBitmapCode applied to bounded inputs                 *)
(*   SpecFont   : makeFontSource applied to bounded inputs                 *)
(*   Spec       : processConfig run over a bounded configuration           *)
(*                                                                         *)
(* Text output is modelled by its content: a table is the sequence of the  *)
(* values the code prints into it; the row comments ('O', '-', '.') and    *)
(* the C identifiers are left out.  A character is modelled by its code    *)
(* point (chr is a bijection between the two).                             *)
(***************************************************************************)
EXTENDS Integers, Sequences, FiniteSets, TLC

VARIABLES
    r_in, r_out,            \* SpecRaster: arguments and result of makeBitmapCode
    f_in, f_out,            \* SpecFont: arguments and result of makeFontSource
    pc,                     \* Spec: position inside processConfig
    cfg,                    \* Spec: the parsed configuration file
    font_no,                \* Spec: processConfig's font_no
    total_ram,              \* Spec: the module-level total_ram
    source, header,         \* Spec: processConfig's source and header texts
    reported,               \* Spec: the total printed by "Font tables use"
    fs, fs0,                \* Spec: the two output files now and before the run
    err                     \* Spec: the exception that ended the run, if any

vars == <<r_in, r_out, f_in, f_out, pc, cfg, font_no, total_ram, source,
          header, reported, fs, fs0, err>>

-----------------------------------------------------------------------------
(* Bounds of the model. *)

SheetW == 3          \* glyph sheet width in pixels
SheetH == 2          \* glyph sheet height in pixels
MaxCellWidth == 13   \* widest target cell given to makeBitmapCode directly
MaxCellHeight == 2   \* tallest target cell
MaxBytesWidth == 2   \* largest BytesWidth of a font section
MaxGlyphs == 2       \* longest glyph collection of SpecFont
MaxFonts == 2        \* most font sections in one configuration

(* Program constants. *)

Threshold == 127     \* getpixel(...) > 127
MsbMask == 128       \* mask = 128

-----------------------------------------------------------------------------
(* The glyph sheet: img.getpixel((x, y)) of a single-channel image.  The    *)
(* sheets of the model cover both sides of the threshold next to it.       *)

Levels == <<0, 127, 128, 255>>

Seeds == 0..3

Sheet(seed) ==
    [p \in (0..(SheetW - 1)) \X (0..(SheetH - 1)) |->
        Levels[((p[1] + 2 * p[2] + seed) % 4) + 1]]

getpixel(img, x, y) == img[<<x, y>>]

-----------------------------------------------------------------------------
(* Glyph.makeBitmapCode *)

\* byte |= mask, for a mask with a single bit set
BitOr(byte, mask) ==
    IF (byte \div mask) % 2 = 1 THEN byte ELSE byte + mask

\* A sampler that clamps the source coordinate into the glyph rectangle
\* instead of rejecting it.
PixelClamped(self, img, x, y, crop_x, crop_y) ==
    LET use_x == x - self.xoffset + crop_x
        use_y == y - self.yoffset + crop_y
        cl(v, n) == IF v < 0 THEN 0 ELSE IF v >= n THEN n - 1 ELSE v
    IN  IF self.width > 0 /\ self.height > 0
        THEN IF getpixel(img, cl(use_x, self.width) + self.x,
                              cl(use_y, self.height) + self.y) > Threshold
             THEN 1 ELSE 0
        ELSE 0

\* The pixel of target position (x, y)
Pixel(self, img, x, y, crop_x, crop_y) ==
    LET use_x == x - self.xoffset + crop_x
        use_y == y - self.yoffset + crop_y
    IN  IF (use_x >= 0) /\ (use_x < self.width)
           /\ (use_y >= 0) /\ (use_y < self.height)
        THEN IF getpixel(img, use_x + self.x, use_y + self.y) > Threshold
             THEN 1 ELSE 0
        ELSE 0

\* The inner loop over x, carrying (bytestring, byte, mask)
RECURSIVE RowLoop(_, _, _, _, _, _, _, _)
RowLoop(self, img, width, y, crop_x, crop_y, x, st) ==
    IF x >= width THEN st
    ELSE LET pixel == Pixel(self, img, x, y, crop_x, crop_y)
             byte1 == IF pixel # 0 THEN BitOr(st.byte, st.mask) ELSE st.byte
             mask1 == st.mask \div 2
             st1 == IF mask1 = 0
                    THEN [bytestring |-> Append(st.bytestring, byte1),
                          mask |-> MsbMask, byte |-> 0]
                    ELSE [bytestring |-> st.bytestring,
                          mask |-> mask1, byte |-> byte1]
         IN  RowLoop(self, img, width, y, crop_x, crop_y, x + 1, st1)

\* A row whose last, partly filled byte is never flushed.
makeBitmapRowNoFlush(self, img, width, y, crop_x, crop_y) ==
    RowLoop(self, img, width, y, crop_x, crop_y, 0,
            [bytestring |-> <<>>, mask |-> MsbMask, byte |-> 0]).bytestring

\* One iteration of the loop over y: the bytes of row y
makeBitmapRow(self, img, width, y, crop_x, crop_y) ==
    LET st == RowLoop(self, img, width, y, crop_x, crop_y, 0,
                      [bytestring |-> <<>>, mask |-> MsbMask, byte |-> 0])
    IN  IF st.mask # MsbMask THEN Append(st.bytestring, st.byte)
        ELSE st.bytestring

\* The heading comment ("ASCII: id, char width: xadvance") and the rows
makeBitmapCode(self, img, width, height, crop_x, crop_y) ==
    [ascii |-> self.id, char_width |-> self.xadvance,
     rows |-> [y \in 1..height |->
                  makeBitmapRow(self, img, width, y - 1, crop_x, crop_y)]]

\* Glyph.makeWidthCode
makeWidthCode(self) == self.xadvance

-----------------------------------------------------------------------------
(* SpecRaster: makeBitmapCode on bounded inputs. *)

\* Glyph rectangles that lie inside the sheet
RasterGlyphs ==
    {[id |-> 65, x |-> gx, y |-> gy, width |-> gw, height |-> gh,
      xoffset |-> xo, yoffset |-> yo, xadvance |-> 2] :
        gx \in 0..(SheetW - 1), gy \in 0..(SheetH - 1),
        gw \in 0..SheetW, gh \in 0..SheetH,
        xo \in {-1, 0, 7}, yo \in {-1, 1}}

RasterInputs ==
    {i \in [glyph : RasterGlyphs, seed : Seeds,
            width : 1..MaxCellWidth, height : 1..MaxCellHeight,
            crop_x : {0, 1}, crop_y : {0, 1}] :
        /\ i.glyph.x + i.glyph.width <= SheetW
        /\ i.glyph.y + i.glyph.height <= SheetH}

Idle == [idle |-> TRUE]

MainIdle ==
    /\ pc = "idle" /\ cfg = Idle /\ font_no = 0 /\ total_ram = 0
    /\ source = <<>> /\ header = <<>> /\ reported = -1
    /\ fs = Idle /\ fs0 = Idle /\ err = "none"

mainVars == <<pc, cfg, font_no, total_ram, source, header, reported, fs, fs0, err>>

InitRaster ==
    /\ r_in \in RasterInputs
    /\ r_out = Idle
    /\ f_in = Idle /\ f_out = Idle
    /\ MainIdle

Rasterize ==
    /\ r_in # Idle /\ r_out = Idle
    /\ r_out' = makeBitmapCode(r_in.glyph, Sheet(r_in.seed), r_in.width,
                               r_in.height, r_in.crop_x, r_in.crop_y)
    /\ UNCHANGED <<r_in, f_in, f_out, mainVars>>

NextRaster == Rasterize

SpecRaster == InitRaster /\ [][NextRaster]_vars

-----------------------------------------------------------------------------
(* The table builders.  config is a Config object:                         *)
(*   [first_ascii, last_ascii, bytes_width, bytes_height, crop_x, crop_y,   *)
(*    chars, fixed_width]                                                   *)
(* with chars = [present |-> FALSE, members |-> {}] for None and            *)
(* [present |-> TRUE, members |-> S] for the set S of loadStringsCharSet.   *)

\* Python's truth value of config.chars: None and the empty set are false
Truthy(chars) == chars.present /\ chars.members # {}

\* "for glyph in glyphs: if glyph.id == ascii: ... break", from index i on;
\* the index of the glyph found, 0 for None
RECURSIVE FindGlyph(_, _, _)
FindGlyph(glyphs, ascii, i) ==
    IF i > Len(glyphs) THEN 0
    ELSE IF glyphs[i].id = ascii THEN i
    ELSE FindGlyph(glyphs, ascii, i + 1)

\* A scan without the break: the last glyph with the id wins.
RECURSIVE FindGlyphLast(_, _, _)
FindGlyphLast(glyphs, ascii, i) ==
    IF i > Len(glyphs) THEN 0
    ELSE LET later == FindGlyphLast(glyphs, ascii, i + 1)
         IN  IF later # 0 THEN later
             ELSE IF glyphs[i].id = ascii THEN i ELSE 0

ResolveBitmapGlyphLast(glyphs, ascii) ==
    LET found == FindGlyphLast(glyphs, ascii, 1)
    IN  [found |-> found # 0,
         index |-> IF found # 0 THEN found
                   ELSE IF Len(glyphs) > 0 THEN 1 ELSE 0]

\* makeBitmapsTable's glyph for a code point: the glyph found, else
\* glyphs[0]; index 0 stands for the IndexError of glyphs[0] on an empty list
ResolveBitmapGlyph(glyphs, ascii) ==
    LET found == FindGlyph(glyphs, ascii, 1)
    IN  [found |-> found # 0,
         index |-> IF found # 0 THEN found
                   ELSE IF Len(glyphs) > 0 THEN 1 ELSE 0]

\* A substitute taken from the end of the collection.
ResolveWidthGlyphTail(glyphs, ascii) ==
    LET found == FindGlyph(glyphs, ascii, 1)
    IN  IF found # 0 THEN found ELSE Len(glyphs)

\* makeWidthsTable's glyph for a code point (0: IndexError)
ResolveWidthGlyph(glyphs, ascii) ==
    LET found == FindGlyph(glyphs, ascii, 1)
    IN  IF found # 0 THEN found
        ELSE IF Len(glyphs) > 0 THEN 1 ELSE 0

SkipBitmapNever(config, ascii) == FALSE

\* makeBitmapsTable: "if config.chars and char not in config.chars: continue"
SkipBitmap(config, ascii) ==
    Truthy(config.chars) /\ ascii \notin config.chars.members

SkipWidthNever(config, ascii) == FALSE

\* makeWidthsTable: "if config.chars and char not in config.chars: continue"
SkipWidth(config, ascii) ==
    Truthy(config.chars) /\ ascii \notin config.chars.members

\* The loop of makeBitmapsTable from code point ascii on
RECURSIVE BitmapsLoop(_, _, _, _, _)
BitmapsLoop(config, img, glyphs, ascii, st) ==
    IF ascii > config.last_ascii \/ st.raised THEN st
    ELSE IF SkipBitmap(config, ascii)
    THEN BitmapsLoop(config, img, glyphs, ascii + 1, st)
    ELSE LET r == ResolveBitmapGlyph(glyphs, ascii)
             st1 == IF r.found THEN st
                    ELSE [st EXCEPT !.info = Append(@, ascii),
                                    !.notes = Append(@, ascii)]
         IN  IF r.index = 0
             THEN [st1 EXCEPT !.raised = TRUE]
             ELSE BitmapsLoop(config, img, glyphs, ascii + 1,
                     [st1 EXCEPT !.cells = Append(@,
                         makeBitmapCode(glyphs[r.index], img,
                                        config.bytes_width * 8,
                                        config.bytes_height,
                                        config.crop_x, config.crop_y))])

\* makeBitmapsTable: size is what it adds to total_ram, info the INFO lines
\* printed, notes the "No glyph for ASCII" comments, cells the glyph cells
makeBitmapsTable(config, img, glyphs) ==
    LET size == (config.last_ascii - config.first_ascii + 1)
                    * config.bytes_width * config.bytes_height
    IN  BitmapsLoop(config, img, glyphs, config.first_ascii,
                    [raised |-> FALSE, size |-> size, cells |-> <<>>,
                     info |-> <<>>, notes |-> <<>>])

\* The loop of makeWidthsTable from code point ascii on
RECURSIVE WidthsLoop(_, _, _, _)
WidthsLoop(config, glyphs, ascii, st) ==
    IF ascii > config.last_ascii \/ st.raised THEN st
    ELSE IF SkipWidth(config, ascii)
    THEN WidthsLoop(config, glyphs, ascii + 1, st)
    ELSE LET k == ResolveWidthGlyph(glyphs, ascii)
         IN  IF k = 0 THEN [st EXCEPT !.raised = TRUE]
             ELSE WidthsLoop(config, glyphs, ascii + 1,
                     [st EXCEPT !.entries = Append(@, makeWidthCode(glyphs[k]))])

\* makeWidthsTable: count is the declared array size (and what it adds to
\* total_ram), entries the initializers written
makeWidthsTable(config, glyphs) ==
    WidthsLoop(config, glyphs, config.first_ascii,
               [raised |-> FALSE,
                count |-> config.last_ascii - config.first_ascii + 1,
                entries |-> <<>>])

\* An offset entry that is the position in the range, not the dense index.
OffsetEntryRangeIndex(config, ascii, n, i) ==
    IF Truthy(config.chars) /\ ascii \in config.chars.members THEN i ELSE -1

\* The entry makeBitmapsOffsetTable writes for a code point, n being the
\* dense index so far and i the number of entries written so far
OffsetEntry(config, ascii, n, i) ==
    IF Truthy(config.chars) /\ ascii \in config.chars.members THEN n ELSE -1

\* The loop of makeBitmapsOffsetTable from code point ascii on
RECURSIVE OffsetLoop(_, _, _, _, _)
OffsetLoop(config, ascii, n, i, s) ==
    IF ascii > config.last_ascii THEN s
    ELSE LET e == OffsetEntry(config, ascii, n, i)
         IN  OffsetLoop(config, ascii + 1, IF e # -1 THEN n + 1 ELSE n,
                        i + 1, Append(s, e))

makeBitmapsOffsetTable(config) ==
    OffsetLoop(config, config.first_ascii, 0, 0, <<>>)

\* makeFontStyleDecl: the fields of the fontStyle_t initializer
makeFontStyleDecl(config) ==
    [glyph_count |-> config.last_ascii - config.first_ascii + 1,
     first_ascii |-> config.first_ascii,
     bytes_width |-> config.bytes_width,
     bytes_height |-> config.bytes_height,
     fixed_width |-> config.fixed_width,
     widths_ref |-> config.fixed_width = 0,
     offsets_ref |-> Truthy(config.chars)]

NoTable == <<>>

\* The initializer list of the _Bitmaps[] array: the bytes of the cells, row
\* after row, cell after cell
RECURSIVE RowsBytes(_, _)
RowsBytes(rows, y) ==
    IF y > Len(rows) THEN <<>> ELSE rows[y] \o RowsBytes(rows, y + 1)

RECURSIVE BitmapBytes(_, _)
BitmapBytes(cells, k) ==
    IF k > Len(cells) THEN <<>>
    ELSE RowsBytes(cells[k].rows, 1) \o BitmapBytes(cells, k + 1)

\* The _Widths[count] array as the C compiler builds it: the initializers
\* written, the rest of the declared size zero
WidthsArray(count, entries) ==
    [i \in 1..count |-> IF i <= Len(entries) THEN entries[i] ELSE 0]

\* makeFontSource after loadFont: the tables appended to the source, ram
\* what the calls made add to total_ram, raised whether glyphs[0] raised
makeFontTables(config, img, glyphs) ==
    LET b == makeBitmapsTable(config, img, glyphs)
        w == makeWidthsTable(config, glyphs)
        base == [raised |-> TRUE, ram |-> b.size, info |-> b.info,
                 bitmaps |-> b.cells, notes |-> b.notes,
                 has_widths |-> FALSE, widths_count |-> 0, widths |-> NoTable,
                 has_offsets |-> FALSE, offsets |-> NoTable,
                 style |-> Idle]
    IN  IF b.raised THEN base
        ELSE IF config.fixed_width = 0 /\ w.raised
        THEN [base EXCEPT !.ram = b.size + w.count]
        ELSE [base EXCEPT
                !.raised = FALSE,
                !.ram = b.size + (IF config.fixed_width = 0 THEN w.count ELSE 0),
                !.has_widths = (config.fixed_width = 0),
                !.widths_count = IF config.fixed_width = 0 THEN w.count ELSE 0,
                !.widths = IF config.fixed_width = 0 THEN w.entries ELSE NoTable,
                !.has_offsets = Truthy(config.chars),
                !.offsets = IF Truthy(config.chars)
                            THEN makeBitmapsOffsetTable(config) ELSE NoTable,
                !.style = makeFontStyleDecl(config)]

-----------------------------------------------------------------------------
(* SpecFont: makeFontSource's table building on bounded inputs. *)

NumCodes == 3        \* size of the code point window of the model

\* The code points a configured range may end at, from 'A' on
Codes == 65..(64 + NumCodes)

\* Two glyphs declared for 'A' (a duplicate id) and one for 'B'; no glyph
\* for any other code point
GlyphPool ==
    {[id |-> 65, x |-> 0, y |-> 0, width |-> 2, height |-> 2,
      xoffset |-> 0, yoffset |-> 0, xadvance |-> 3],
     [id |-> 65, x |-> 1, y |-> 0, width |-> 2, height |-> 1,
      xoffset |-> 1, yoffset |-> 0, xadvance |-> 4],
     [id |-> 66, x |-> 0, y |-> 1, width |-> 3, height |-> 1,
      xoffset |-> -1, yoffset |-> 1, xadvance |-> 5]}

\* Glyph collections: sequences of distinct pool glyphs, the empty one too
GlyphLists ==
    UNION {{g \in [1..n -> GlyphPool] :
                \A i, j \in 1..n : i # j => g[i] # g[j]} : n \in 0..MaxGlyphs}

CharSets ==
    {[present |-> FALSE, members |-> {}]} \cup
    {[present |-> TRUE, members |-> m] : m \in SUBSET (65..67)}

FontConfigs ==
    {c \in [first_ascii : {65, 66}, last_ascii : Codes,
            bytes_width : 1..MaxBytesWidth, bytes_height : 1..MaxCellHeight,
            crop_x : {0, 1}, crop_y : {0, 1},
            chars : CharSets, fixed_width : {0, 6}] :
        c.first_ascii <= c.last_ascii}

FontImage == Sheet(1)

InitFont ==
    /\ f_in \in [config : FontConfigs, glyphs : GlyphLists]
    /\ f_out = Idle
    /\ r_in = Idle /\ r_out = Idle
    /\ MainIdle

BuildFont ==
    /\ f_in # Idle /\ f_out = Idle
    /\ f_out' = makeFontTables(f_in.config, FontImage, f_in.glyphs)
    /\ UNCHANGED <<f_in, r_in, r_out, mainVars>>

NextFont == BuildFont

SpecFont == InitFont /\ [][NextFont]_vars

-----------------------------------------------------------------------------
(* Configuration loading.  A section of the parsed configuration file is a  *)
(* function from the option names it holds to their values; the files the   *)
(* options name are looked up in a fixed file system.                       *)

has_option(section, name) == name \in DOMAIN section

\* The options Config.__init__ reads with cfg.get / cfg.getint and no
\* has_option test, in the order it reads them
RequiredOptions ==
    <<"InputFile", "CFontName", "FirstAscii", "LastAscii",
      "BytesWidth", "BytesHeight", "CropX", "CropY">>

\* The strings files: readable or not, and the lines readlines() returns
\* (10 is the newline)
StringsFiles ==
    [name \in {"ac.txt", "empty.txt", "missing.txt"} |->
        CASE name = "ac.txt" -> [readable |-> TRUE,
                                 lines |-> <<<<65, 67, 10>>, <<65, 10>>>>]
          [] name = "empty.txt" -> [readable |-> TRUE, lines |-> <<<<10>>>>]
          [] OTHER -> [readable |-> FALSE, lines |-> <<>>]]

RECURSIVE JoinLines(_, _)
JoinLines(lines, k) ==
    IF k > Len(lines) THEN <<>> ELSE lines[k] \o JoinLines(lines, k + 1)

\* loadStringsCharSet: set(''.join(strings).replace('\n', ''))
loadStringsCharSet(strings_file) ==
    LET f == StringsFiles[strings_file]
        joined == JoinLines(f.lines, 1)
    IN  IF ~f.readable THEN [raised |-> TRUE, chars |-> {}]
        ELSE [raised |-> FALSE,
              chars |-> {joined[k] : k \in {j \in 1..Len(joined) : joined[j] # 10}}]

\* Config.__init__: the Config object, or the exception raised
Config(section) ==
    IF \E k \in 1..Len(RequiredOptions) : ~has_option(section, RequiredOptions[k])
    THEN [raised |-> "NoOptionError", config |-> Idle]
    ELSE LET strings == IF has_option(section, "Strings")
                        THEN loadStringsCharSet(section["Strings"])
                        ELSE [raised |-> FALSE, chars |-> {}]
         IN  IF strings.raised
             THEN [raised |-> "IOError", config |-> Idle]
             ELSE [raised |-> "none",
                   config |->
                     [font_input |-> section["InputFile"],
                      c_fontname |-> section["CFontName"],
                      first_ascii |-> section["FirstAscii"],
                      last_ascii |-> section["LastAscii"],
                      bytes_width |-> section["BytesWidth"],
                      bytes_height |-> section["BytesHeight"],
                      crop_x |-> section["CropX"],
                      crop_y |-> section["CropY"],
                      chars |-> [present |-> has_option(section, "Strings"),
                                 members |-> strings.chars],
                      fixed_width |-> IF has_option(section, "FixedWidth")
                                      THEN section["FixedWidth"] ELSE 0]]

\* The metrics files with their page image: readable or not, and the
\* glyphs in the order of their char elements
MetricsFiles ==
    [name \in {"a.fnt", "empty.fnt", "missing.fnt"} |->
        CASE name = "a.fnt" ->
               [readable |-> TRUE, img |-> Sheet(1),
                glyphs |-> <<[id |-> 66, x |-> 0, y |-> 1, width |-> 3,
                              height |-> 1, xoffset |-> -1, yoffset |-> 1,
                              xadvance |-> 5],
                             [id |-> 65, x |-> 0, y |-> 0, width |-> 2,
                              height |-> 2, xoffset |-> 0, yoffset |-> 0,
                              xadvance |-> 3]>>]
          [] name = "empty.fnt" ->
               [readable |-> TRUE, img |-> Sheet(1), glyphs |-> <<>>]
          [] OTHER -> [readable |-> FALSE, img |-> Sheet(0), glyphs |-> <<>>]]

\* loadFont: (img, glyphs), or the error of minidom.parse / image.open
loadFont(config) == MetricsFiles[config.font_input]

\* makeFontSource: the tables of the font, what the call adds to total_ram
\* and the exception it raises
makeFontSource(config) ==
    LET font == loadFont(config)
        t == makeFontTables(config, font.img, font.glyphs)
    IN  IF ~font.readable
        THEN [raised |-> "IOError", ram |-> 0, tables |-> Idle]
        ELSE [raised |-> IF t.raised THEN "IndexError" ELSE "none",
              ram |-> t.ram, tables |-> t]

-----------------------------------------------------------------------------
(* Spec: processConfig. *)

FullSection ==
    [InputFile |-> "a.fnt", CFontName |-> "F", FirstAscii |-> 65,
     LastAscii |-> 67, BytesWidth |-> 1, BytesHeight |-> 2, CropX |-> 0,
     CropY |-> 1, Strings |-> "ac.txt", FixedWidth |-> 0]

Without(section, name) == [n \in DOMAIN section \ {name} |-> section[n]]

\* The font sections of the model: the full one, the full one with one
\* option left out, and the full one with one option changed
Sections ==
    {FullSection}
    \cup {Without(FullSection, n) : n \in DOMAIN FullSection}
    \cup {[FullSection EXCEPT !["InputFile"] = f] : f \in {"empty.fnt", "missing.fnt"}}
    \cup {[FullSection EXCEPT !["Strings"] = f] : f \in {"empty.txt", "missing.txt"}}
    \cup {[FullSection EXCEPT !["FixedWidth"] = 6],
          [FullSection EXCEPT !["BytesWidth"] = MaxBytesWidth]}

\* Configurations: a General section with both output names or none, and
\* sections Font1..FontN
Configs ==
    [general : BOOLEAN,
     fonts : UNION {[1..n -> Sections] : n \in 0..MaxFonts}]

\* An output file is absent, holds what an earlier run left, or holds the
\* text written
FileStates ==
    {[state |-> "absent", text |-> <<>>], [state |-> "old", text |-> <<>>]}

Written(text) == [state |-> "written", text |-> text]

Init ==
    /\ pc = "start"
    /\ cfg \in Configs
    /\ font_no = 0
    /\ total_ram \in {0, 9}
    /\ source = <<>> /\ header = <<>>
    /\ reported = -1
    /\ fs0 \in [source : FileStates, header : FileStates]
    /\ fs = fs0
    /\ err = "none"
    /\ r_in = Idle /\ r_out = Idle /\ f_in = Idle /\ f_out = Idle

pureVars == <<r_in, r_out, f_in, f_out>>

has_section(k) == k \in 1..Len(cfg.fonts)

\* cfg.get("General", ...), the start of both texts, font_no = 1,
\* total_ram = 0
Start ==
    /\ pc = "start"
    /\ IF cfg.general
       THEN /\ pc' = "loop"
            /\ font_no' = 1
            /\ total_ram' = 0
            /\ source' = <<>> /\ header' = <<>>
            /\ UNCHANGED err
       ELSE /\ pc' = "raised" /\ err' = "NoSectionError"
            /\ UNCHANGED <<font_no, total_ram, source, header>>
    /\ UNCHANGED <<cfg, reported, fs, fs0, pureVars>>

\* One iteration of the while loop, with the source file rewritten as soon
\* as a font is built.
FontStepEager ==
    /\ pc = "loop" /\ has_section(font_no)
    /\ LET c == Config(cfg.fonts[font_no])
           t == makeFontSource(c.config)
       IN  IF c.raised # "none"
           THEN /\ pc' = "raised" /\ err' = c.raised
                /\ UNCHANGED <<font_no, total_ram, source, header, fs>>
           ELSE /\ total_ram' = total_ram + t.ram
                /\ IF t.raised # "none"
                   THEN /\ pc' = "raised" /\ err' = t.raised
                        /\ UNCHANGED <<font_no, source, header, fs>>
                   ELSE /\ source' = Append(source, t.tables)
                        /\ header' = Append(header, c.config.c_fontname)
                        /\ font_no' = font_no + 1
                        /\ fs' = [fs EXCEPT !.source = Written(Append(source, t.tables))]
                        /\ UNCHANGED <<pc, err>>
    /\ UNCHANGED <<cfg, reported, fs0, pureVars>>

\* One iteration of the while loop: Config, makeFontSource,
\* makeFontStyleHeader, font_no += 1; an exception ends the run
FontStep ==
    /\ pc = "loop" /\ has_section(font_no)
    /\ LET c == Config(cfg.fonts[font_no])
           t == makeFontSource(c.config)
       IN  IF c.raised # "none"
           THEN /\ pc' = "raised" /\ err' = c.raised
                /\ UNCHANGED <<font_no, total_ram, source, header>>
           ELSE /\ total_ram' = total_ram + t.ram
                /\ IF t.raised # "none"
                   THEN /\ pc' = "raised" /\ err' = t.raised
                        /\ UNCHANGED <<font_no, source, header>>
                   ELSE /\ source' = Append(source, t.tables)
                        /\ header' = Append(header, c.config.c_fontname)
                        /\ font_no' = font_no + 1
                        /\ UNCHANGED <<pc, err>>
    /\ UNCHANGED <<cfg, reported, fs, fs0, pureVars>>

\* The loop ends: header_end, and the "Font tables use" line is printed
LoopExit ==
    /\ pc = "loop" /\ ~has_section(font_no)
    /\ reported' = total_ram
    /\ pc' = "write_source"
    /\ UNCHANGED <<cfg, font_no, total_ram, source, header, fs, fs0, err, pureVars>>

\* with open(output_source, "w"): write(source); open may fail
WriteSource ==
    /\ pc = "write_source"
    /\ \/ /\ fs' = [fs EXCEPT !.source = Written(source)]
          /\ pc' = "write_header"
          /\ UNCHANGED err
       \/ /\ pc' = "raised" /\ err' = "OutputIOError"
          /\ UNCHANGED fs
    /\ UNCHANGED <<cfg, font_no, total_ram, source, header, reported, fs0, pureVars>>

\* with open(output_header, "w"): write(header); open may fail
WriteHeader ==
    /\ pc = "write_header"
    /\ \/ /\ fs' = [fs EXCEPT !.header = Written(header)]
          /\ pc' = "done"
          /\ UNCHANGED err
       \/ /\ pc' = "raised" /\ err' = "OutputIOError"
          /\ UNCHANGED fs
    /\ UNCHANGED <<cfg, font_no, total_ram, source, header, reported, fs0, pureVars>>

Next == Start \/ FontStep \/ LoopExit \/ WriteSource \/ WriteHeader

Spec == Init /\ [][Next]_vars

-----------------------------------------------------------------------------
(* Claims about makeBitmapCode (SpecRaster). *)

\* The bit the emitted bytes hold for target position (x, y): row y, byte
\* x div 8, bit value 128 >> (x mod 8)
EmittedBit(out, x, y) ==
    (out.rows[y + 1][(x \div 8) + 1] \div (2 ^ (7 - (x % 8)))) % 2

\* The sheet pixel the claim names for (x, y) is brighter than the threshold
SourceLit(i, x, y) ==
    LET src_x == x - i.glyph.xoffset + i.crop_x
        src_y == y - i.glyph.yoffset + i.crop_y
    IN  /\ 0 <= src_x /\ src_x < i.glyph.width
        /\ 0 <= src_y /\ src_y < i.glyph.height
        /\ Sheet(i.seed)[<<i.glyph.x + src_x, i.glyph.y + src_y>>] > 127

\* C1: for every target position (x, y) of the cell, the emitted bit is 1
\* if and only if the source coordinate (x - xoffset + crop_x,
\* y - yoffset + crop_y) lies inside the glyph rectangle and the sheet pixel
\* there has intensity greater than 127; in every other case the bit is 0.
C1_BitIffSourceLit ==
    r_out # Idle =>
        \A x \in 0..(r_in.width - 1), y \in 0..(r_in.height - 1) :
            EmittedBit(r_out, x, y) = (IF SourceLit(r_in, x, y) THEN 1 ELSE 0)

\* A cell with a lit bit, a dark pixel inside the glyph rectangle, and
\* target positions whose source lies left of and right of the rectangle.
C1_Witness ==
    /\ r_out # Idle
    /\ \E x \in 0..(r_in.width - 1), y \in 0..(r_in.height - 1) :
          EmittedBit(r_out, x, y) = 1
    /\ \E x \in 0..(r_in.width - 1), y \in 0..(r_in.height - 1) :
          /\ x - r_in.glyph.xoffset + r_in.crop_x \in 0..(r_in.glyph.width - 1)
          /\ y - r_in.glyph.yoffset + r_in.crop_y \in 0..(r_in.glyph.height - 1)
          /\ EmittedBit(r_out, x, y) = 0
    /\ \E x \in 0..(r_in.width - 1) : x - r_in.glyph.xoffset + r_in.crop_x < 0
    /\ \E x \in 0..(r_in.width - 1) :
          x - r_in.glyph.xoffset + r_in.crop_x >= r_in.glyph.width
    /\ r_in.glyph.width > 0

\* C2: the cell has one row per cell row, each row has ceil(w/8) bytes, the
\* bit of column x is bit 128 >> (x mod 8) of byte x div 8 of its own row,
\* and the bits of the last byte beyond column w - 1 are 0.
C2_RowPacking ==
    r_out # Idle =>
        /\ DOMAIN r_out.rows = 1..r_in.height
        /\ \A y \in 0..(r_in.height - 1) :
              LET row == r_out.rows[y + 1] IN
              /\ Len(row) = (r_in.width + 7) \div 8
              /\ \A k \in 0..(Len(row) - 1) :
                    /\ row[k + 1] \in 0..255
                    /\ \A j \in 0..7 :
                          (row[k + 1] \div (2 ^ (7 - j))) % 2 =
                              (IF 8 * k + j < r_in.width
                               THEN Pixel(r_in.glyph, Sheet(r_in.seed), 8 * k + j,
                                          y, r_in.crop_x, r_in.crop_y)
                               ELSE 0)

\* A 13 pixel wide cell: two bytes per row, a lit bit in the second byte.
C2_Witness ==
    /\ r_out # Idle
    /\ r_in.width = 13
    /\ Len(r_out.rows[1]) = 2
    /\ r_out.rows[1][2] # 0
    /\ r_out.rows[1][2] % 8 = 0

-----------------------------------------------------------------------------
(* Claims about the tables of one font (SpecFont). *)

RangeCodes(config) == config.first_ascii..config.last_ascii

\* The code points of the range that get a cell: the members of
\* included_chars when it is set and not empty, the whole range otherwise
IncludedCodes(config) ==
    IF config.chars.present /\ config.chars.members # {}
    THEN RangeCodes(config) \cap config.chars.members
    ELSE RangeCodes(config)

\* The same with every set included_chars, the empty one too, taken as a
\* subset
IncludedCodesWhenSet(config) ==
    IF config.chars.present
    THEN RangeCodes(config) \cap config.chars.members
    ELSE RangeCodes(config)

\* The number of code points of S below c: the dense index of c in S
Rank(S, c) == Cardinality({d \in S : d < c})

\* The first glyph in collection order whose id is c, the glyph at index 0
\* if there is none
FirstDeclared(glyphs, c) ==
    LET idx == {i \in 1..Len(glyphs) : glyphs[i].id = c}
    IN  IF idx = {} THEN glyphs[1]
        ELSE glyphs[CHOOSE i \in idx : \A j \in idx : i <= j]

HasGlyph(glyphs, c) == \E i \in 1..Len(glyphs) : glyphs[i].id = c

Rasterization(config, g) ==
    makeBitmapCode(g, FontImage, config.bytes_width * 8, config.bytes_height,
                   config.crop_x, config.crop_y)

FontBuilt == f_out # Idle /\ f_in.glyphs # <<>>

\* C3: with a non-empty glyph collection the build does not raise, the cell
\* of every emitted code point c is the rasterization of the first glyph
\* whose id is c, or of the glyph at index 0 when no glyph has id c, and in
\* that case a diagnostic names c.
C3_FirstMatchOrFirstGlyph ==
    FontBuilt =>
        /\ ~f_out.raised
        /\ \A c \in IncludedCodes(f_in.config) :
              LET k == Rank(IncludedCodes(f_in.config), c) + 1 IN
              /\ k <= Len(f_out.bitmaps)
              /\ f_out.bitmaps[k] =
                    Rasterization(f_in.config, FirstDeclared(f_in.glyphs, c))
              /\ ~HasGlyph(f_in.glyphs, c) =>
                    /\ \E n \in 1..Len(f_out.info) : f_out.info[n] = c
                    /\ \E n \in 1..Len(f_out.notes) : f_out.notes[n] = c

\* Two glyphs with the same id, a code point that has them and a code
\* point with no glyph, both emitted.
C3_Witness ==
    /\ FontBuilt /\ ~f_out.raised
    /\ Len(f_in.glyphs) = 2
    /\ f_in.glyphs[1].id = f_in.glyphs[2].id
    /\ f_in.glyphs[1].id \in IncludedCodes(f_in.config)
    /\ \E c \in IncludedCodes(f_in.config) :
          /\ ~HasGlyph(f_in.glyphs, c)
          /\ f_out.info # <<>>

\* The offset table the claim describes, for the code points S that count
\* as included
OffsetsAsClaimed(config, out) ==
    /\ out.has_offsets
    /\ Len(out.offsets) = config.last_ascii - config.first_ascii + 1
    /\ \A c \in RangeCodes(config) :
          out.offsets[c - config.first_ascii + 1] =
              IF c \in config.chars.members
              THEN Rank(RangeCodes(config) \cap config.chars.members, c)
              ELSE -1

\* C4 (as stated): in a build that completes, whenever included_chars is
\* set an OffsetTable with one
\* entry per code point of the range is produced, -1 for a code point not
\* in included_chars and the dense index otherwise; none when it is not set.
C4_OffsetTableWheneverSet ==
    (f_out # Idle /\ ~f_out.raised) =>
        IF f_in.config.chars.present
        THEN OffsetsAsClaimed(f_in.config, f_out)
        ELSE ~f_out.has_offsets

\* C4 (amended): the same for an included_chars that is set and not empty;
\* when it is not set, or is the empty set, no OffsetTable is produced.
C4_OffsetTableWhenNonEmpty ==
    (f_out # Idle /\ ~f_out.raised) =>
        IF f_in.config.chars.present /\ f_in.config.chars.members # {}
        THEN OffsetsAsClaimed(f_in.config, f_out)
        ELSE ~f_out.has_offsets /\ f_out.offsets = NoTable

\* included_chars = {'A', 'C'} over 65..67 gives [0, -1, 1].
C4_Witness ==
    /\ FontBuilt /\ ~f_out.raised
    /\ f_in.config.first_ascii = 65 /\ f_in.config.last_ascii = 67
    /\ f_in.config.chars.present /\ f_in.config.chars.members = {65, 67}
    /\ f_out.has_offsets
    /\ f_out.offsets = <<0, -1, 1>>

\* C5 (as stated): with fixed_advance = 0 the WidthTable has one entry for
\* every code point of the range, in ascending order, member of
\* included_chars or not; otherwise there is none.  Read on the initializers
\* written or on the array of the declared size.
C5_WidthPerRangeCode ==
    (FontBuilt /\ ~f_out.raised) =>
        IF f_in.config.fixed_width = 0
        THEN /\ f_out.has_widths
             /\ LET n == f_in.config.last_ascii - f_in.config.first_ascii + 1
                    asRange(t) ==
                        /\ DOMAIN t = 1..n
                        /\ \A c \in RangeCodes(f_in.config) :
                              t[c - f_in.config.first_ascii + 1] =
                                  FirstDeclared(f_in.glyphs, c).xadvance
                IN  \/ asRange(f_out.widths)
                    \/ asRange(WidthsArray(f_out.widths_count, f_out.widths))
        ELSE ~f_out.has_widths

\* C5 (amended): with fixed_advance = 0 the WidthTable is declared with the
\* range count and holds one written entry per emitted code point, in
\* ascending order: the advance of the glyph resolved for it; with
\* fixed_advance != 0 there is none.
C5_WidthPerIncludedCode ==
    (FontBuilt /\ ~f_out.raised) =>
        IF f_in.config.fixed_width = 0
        THEN /\ f_out.has_widths
             /\ f_out.widths_count =
                    f_in.config.last_ascii - f_in.config.first_ascii + 1
             /\ Len(f_out.widths) = Cardinality(IncludedCodes(f_in.config))
             /\ \A c \in IncludedCodes(f_in.config) :
                    f_out.widths[Rank(IncludedCodes(f_in.config), c) + 1] =
                        FirstDeclared(f_in.glyphs, c).xadvance
        ELSE ~f_out.has_widths /\ f_out.widths = NoTable

\* A variable-width font whose subset leaves out a code point of the range.
C5_Witness ==
    /\ FontBuilt /\ ~f_out.raised
    /\ f_in.config.fixed_width = 0
    /\ f_out.has_widths
    /\ f_out.widths # <<>>
    /\ IncludedCodes(f_in.config) # RangeCodes(f_in.config)
    /\ Len(f_out.widths) < f_out.widths_count

\* The bitmap table has one cell of bytes_width * bytes_height bytes per
\* code point of S, in ascending code point order
BitmapsCover(config, glyphs, out, S) ==
    /\ Len(out.bitmaps) = Cardinality(S)
    /\ \A k \in 1..Len(out.bitmaps) :
          /\ DOMAIN out.bitmaps[k].rows = 1..config.bytes_height
          /\ \A y \in 1..config.bytes_height :
                Len(out.bitmaps[k].rows[y]) = config.bytes_width
    /\ Len(BitmapBytes(out.bitmaps, 1)) =
          Cardinality(S) * config.bytes_width * config.bytes_height
    /\ \A c \in S :
          out.bitmaps[Rank(S, c) + 1].ascii = FirstDeclared(glyphs, c).id

\* C7 (as stated): the included code points are the members of
\* included_chars in the range whenever included_chars is set.
C7_CellsPerIncludedWhenSet ==
    (FontBuilt /\ ~f_out.raised) =>
        BitmapsCover(f_in.config, f_in.glyphs, f_out,
                     IncludedCodesWhenSet(f_in.config))

\* C7 (amended): the included code points are the members of included_chars
\* in the range when included_chars is set and not empty, and the whole
\* range when it is absent or empty.
C7_CellsPerIncluded ==
    (FontBuilt /\ ~f_out.raised) =>
        BitmapsCover(f_in.config, f_in.glyphs, f_out,
                     IncludedCodes(f_in.config))

\* A subset that keeps some code points of the range and drops others, in
\* a cell of more than one byte.
C7_Witness ==
    /\ FontBuilt /\ ~f_out.raised
    /\ f_in.config.chars.present
    /\ IncludedCodes(f_in.config) # {}
    /\ IncludedCodes(f_in.config) # RangeCodes(f_in.config)
    /\ f_in.config.bytes_width * f_in.config.bytes_height > 1
    /\ Len(BitmapBytes(f_out.bitmaps, 1)) >= 4

\* C10: the tables of one font agree on one dense index: for an offset
\* entry k # -1 of code point c, cell k is the rasterization of the glyph
\* resolved for c and (fixed_advance = 0) width entry k is its advance; the
\* numbers of cells, of width entries and of non-sentinel offsets are equal.
C10_TablesShareDenseIndex ==
    (FontBuilt /\ ~f_out.raised) =>
        /\ f_out.has_widths => Len(f_out.widths) = Len(f_out.bitmaps)
        /\ f_out.has_offsets =>
              /\ Len(f_out.bitmaps) =
                    Cardinality({i \in 1..Len(f_out.offsets) :
                                    f_out.offsets[i] # -1})
              /\ \A c \in RangeCodes(f_in.config) :
                    LET k == f_out.offsets[c - f_in.config.first_ascii + 1]
                        g == FirstDeclared(f_in.glyphs, c)
                    IN  k # -1 =>
                          /\ k \in 0..(Len(f_out.bitmaps) - 1)
                          /\ f_out.bitmaps[k + 1] =
                                Rasterization(f_in.config, g)
                          /\ f_out.has_widths => f_out.widths[k + 1] = g.xadvance

\* All three tables present, a sentinel before a non-sentinel entry, and a
\* substituted code point among the included ones.
C10_Witness ==
    /\ FontBuilt /\ ~f_out.raised
    /\ f_out.has_widths /\ f_out.has_offsets
    /\ Len(f_out.offsets) = 3
    /\ f_out.offsets[1] = -1 /\ f_out.offsets[3] = 1
    /\ f_out.info # <<>>
    /\ Len(f_in.glyphs) = 2

-----------------------------------------------------------------------------
(* Claims about processConfig (Spec). *)

LoadErrors == {"NoSectionError", "NoOptionError", "IOError", "IndexError"}

\* C6: no output file is created or changed before the tables of all the
\* fonts are built, and a run that loading or table building ends leaves
\* both output files as they were.
C6_OutputOnlyAfterAllFonts ==
    /\ pc \in {"write_source", "write_header", "done"} =>
          Len(source) = Len(cfg.fonts)
    /\ fs # fs0 =>
          /\ Len(source) = Len(cfg.fonts)
          /\ font_no = Len(cfg.fonts) + 1
          /\ pc \in {"write_header", "done", "raised"}
          /\ pc = "raised" => err = "OutputIOError"
    /\ (pc = "raised" /\ err \in LoadErrors) => fs = fs0

\* The second of two fonts fails in table building after the first was
\* built, with both output files left from an earlier run.
C6_Witness ==
    /\ pc = "raised" /\ err = "IndexError"
    /\ font_no = 2 /\ Len(cfg.fonts) = 2
    /\ Len(source) = 1
    /\ fs0.source.state = "old" /\ fs0.header.state = "old"
    /\ fs = fs0

SixMandatory ==
    {"InputFile", "CFontName", "FirstAscii", "LastAscii",
     "BytesWidth", "BytesHeight"}

\* C8: a configuration error ends the run only when the font section lacks
\* one of the six mandatory fields; a section that has them and leaves out
\* CropX, CropY, FixedWidth or Strings is accepted.
C8_OnlyMandatoryFieldsRequired ==
    (pc = "raised" /\ err = "NoOptionError") =>
        \E n \in SixMandatory : ~has_option(cfg.fonts[font_no], n)

RECURSIVE EmittedTotal(_, _)
EmittedTotal(src, k) ==
    IF k > Len(src) THEN 0
    ELSE Len(BitmapBytes(src[k].bitmaps, 1))
         + (IF src[k].has_widths THEN Len(src[k].widths) ELSE 0)
         + EmittedTotal(src, k + 1)

\* C9: the total reported at the end of a run is the sum over its fonts of
\* the bytes emitted in the bitmap table and the entries emitted in the
\* width table.
C9_ReportedTotalIsEmitted ==
    pc \in {"write_source", "write_header", "done"} =>
        reported = EmittedTotal(source, 1)

====
